---- MODULE Spec2Model ----
(***************************************************************************)
(* The news aggregator of src/news-aggregator.cc running on two instances  *)
(* of the ThreadPool of src/thread-pool.cc: the feed pool, whose thunks    *)
(* are the feed tasks of launchFeedPool, and the article pool, whose       *)
(* thunks are the article tasks of launchArticlePool.                      *)
(*                                                                         *)
(* Every critical section (lock ... unlock) is one step, every semaphore   *)
(* wait or signal is one step, every unsynchronised read or write of a     *)
(* shared field is one step.                                               *)
(***************************************************************************)
EXTENDS Integers, Sequences, FiniteSets, TLC

\* Sizes of the two pools (kNumFeedWorkers and kNumArticleWorkers of
\* news-aggregator.cc:114-115, scaled down).
NumFeedWorkers == 2
NumArticleWorkers == 2
\* How many times the caller invokes buildIndex before deleting the aggregator.
MaxBuilds == 2

Pools == {"feed", "article"}

numThreads(p) == IF p = "feed" THEN NumFeedWorkers ELSE NumArticleWorkers

-----------------------------------------------------------------------------
(* Values.  A string is the sequence of its characters, a character is a   *)
(* natural number; a URL is the string <<server, path>>.                   *)

RECURSIVE StrLess(_, _)
\* std::string operator< : lexicographic order.
StrLess(a, b) ==
  IF b = << >> THEN FALSE
  ELSE IF a = << >> THEN TRUE
  ELSE IF Head(a) < Head(b) THEN TRUE
  ELSE IF Head(b) < Head(a) THEN FALSE
  ELSE StrLess(Tail(a), Tail(b))

\* getURLServer: the host component of a URL.
getURLServer(url) == <<url[1]>>

RECURSIVE Insert(_, _)
Insert(x, s) ==
  IF s = << >> THEN <<x>>
  ELSE IF x <= Head(s) THEN <<x>> \o s
  ELSE <<Head(s)>> \o Insert(x, Tail(s))

RECURSIVE sort(_)
\* std::sort on a vector of tokens (a token is a natural number here).
sort(s) == IF s = << >> THEN << >> ELSE Insert(Head(s), sort(Tail(s)))

RECURSIVE set_intersection(_, _)
\* std::set_intersection on two sorted ranges: the linear merge, which keeps
\* min(m, n) copies of an element occurring m times in a and n times in b.
set_intersection(a, b) ==
  IF a = << >> \/ b = << >> THEN << >>
  ELSE IF Head(a) < Head(b) THEN set_intersection(Tail(a), b)
  ELSE IF Head(b) < Head(a) THEN set_intersection(a, Tail(b))
  ELSE <<Head(a)>> \o set_intersection(Tail(a), Tail(b))

-----------------------------------------------------------------------------
(* What the external collaborators return: the feed list, the feeds and    *)
(* the documents.                                                          *)

FeedURL(i) == <<1, i>>

Art(title, server, path) == [title |-> <<title>>, url |-> <<server, path>>]

Feed(i, ok, articles) == [url |-> FeedURL(i), ok |-> ok, articles |-> articles]

\* The tokens of the document at a URL (unsorted, with repetitions).
DocTokens(url) ==
  IF url = <<2, 1>> THEN <<3, 1, 2, 2>>
  ELSE IF url = <<2, 2>> THEN <<2, 4, 2, 3>>
  ELSE IF url = <<2, 3>> THEN <<2, 3, 3>>
  ELSE IF url = <<2, 4>> THEN << >>
  ELSE IF url = <<2, 5>> THEN <<6, 1, 6>>
  ELSE <<5, 1>>

\* listOK: RSSFeedList::parse succeeds; feeds: the map of the feed list in
\* its iteration order (by feed URL); docFail: the URLs whose HTMLDocument
\* fails to parse (HTMLDocumentException); docThrow: the URLs whose
\* HTMLDocument::parse ends with any other exception.
InThrow(listOK, feeds, docFail, docThrow) ==
  [listOK |-> listOK, feeds |-> feeds, docFail |-> docFail, docThrow |-> docThrow]

In(listOK, feeds, docFail) == InThrow(listOK, feeds, docFail, {})

Inputs ==
  { \* the feed list fails to parse; feeds is what getFeeds() would hold
    In(FALSE, <<Feed(1, TRUE, <<Art(7, 2, 1)>>)>>, {}),
    In(TRUE, << >>, {}),
    \* a document whose parse ends with an exception that nothing catches
    InThrow(TRUE, <<Feed(1, TRUE, <<Art(7, 2, 1), Art(7, 2, 2)>>)>>, {}, {<<2, 2>>}),
    \* two feeds, one article each, same title and server, distinct URLs
    In(TRUE, <<Feed(1, TRUE, <<Art(7, 2, 2)>>), Feed(2, TRUE, <<Art(7, 2, 1)>>)>>, {}),
    \* one feed fails to parse, one is empty, one has three articles
    In(TRUE, <<Feed(1, FALSE, << >>), Feed(2, TRUE, << >>),
               Feed(3, TRUE, <<Art(7, 2, 2), Art(7, 2, 1), Art(7, 2, 3)>>)>>, {}),
    \* the same article in two feeds, and an article at the URL of a feed
    In(TRUE, <<Feed(1, TRUE, <<Art(7, 2, 1), Art(8, 1, 2)>>),
               Feed(2, TRUE, <<Art(7, 2, 1)>>)>>, {}),
    \* a document that fails to parse, an article on another server
    In(TRUE, <<Feed(1, TRUE, <<Art(7, 2, 1), Art(7, 2, 2)>>),
               Feed(2, TRUE, <<Art(7, 3, 1)>>)>>, {<<2, 2>>}),
    \* one article twice in a feed, its document fails to parse
    In(TRUE, <<Feed(1, TRUE, <<Art(7, 2, 1), Art(7, 2, 1)>>)>>, {<<2, 1>>}),
    \* documents with no token in common, one of them empty
    In(TRUE, <<Feed(1, TRUE, <<Art(7, 2, 5)>>),
               Feed(2, TRUE, <<Art(7, 2, 4), Art(7, 2, 1)>>)>>, {}) }

\* The inputs of the runs checked under fairness.
FairInputs ==
  { In(TRUE, <<Feed(1, TRUE, <<Art(7, 2, 2)>>), Feed(2, TRUE, <<Art(7, 2, 1)>>)>>, {}),
    \* a feed that fails to parse before a feed with two articles
    In(TRUE, <<Feed(1, FALSE, << >>),
               Feed(2, TRUE, <<Art(7, 2, 1), Art(8, 2, 2)>>)>>, {}),
    \* an empty feed before a feed with one article
    In(TRUE, <<Feed(1, TRUE, << >>), Feed(2, TRUE, <<Art(7, 2, 1)>>)>>, {}) }

\* More feeds than the feed pool has workers and more article tasks than the
\* article pool has workers: three feeds that list the same article.
ManyInputs ==
  { In(TRUE, <<Feed(1, TRUE, <<Art(7, 2, 1)>>), Feed(2, TRUE, <<Art(7, 2, 1)>>),
               Feed(3, TRUE, <<Art(7, 2, 1)>>)>>, {}) }

\* One feed whose second document ends its parse with an exception that is
\* not an HTMLDocumentException, and one feed without any fault.
FaultInputs ==
  { InThrow(TRUE, <<Feed(1, TRUE, <<Art(7, 2, 1), Art(7, 2, 2)>>)>>, {}, {<<2, 2>>}),
    In(TRUE, <<Feed(1, TRUE, <<Art(7, 2, 1)>>)>>, {}) }

-----------------------------------------------------------------------------
VARIABLES
  \* ThreadPool fields, one value per pool (thread-pool.h:69-86)
  thunkQueue, nextSpawnID, pendingThunks, exitFlag,
  workerIsAvailable, newThunkFromScheduler, workersLock,
  workerInUse, workerThunk, thunkToExecute,
  \* the dispatcher thread of each pool: position and locals
  dispatcherPC, availableWorkerID, currentThunk,
  \* the worker threads of each pool: position, loop index of the feed task
  workerPC, workerI,
  \* the thread that owns the aggregator
  mainPC, mainI, builds, destroying,
  \* NewsAggregator fields (news-aggregator.h:76-91)
  built, seenURLs, intermediateIndex, index,
  \* seenURLsLock and intermediateIndexLock: the thread that holds each
  seenURLsLock, intermediateIndexLock,
  \* std::terminate has ended the process: no thread takes another step
  terminated,
  \* what the collaborators return
  input,
  \* history: fetches per URL, executions per thunk, thunks in push and in
  \* assignment order, thunks whose schedule() call has returned, and for
  \* each caller of wait() the thunks whose schedule() call had returned when
  \* it called wait()
  fetched, execCount, pushed, assigned, schedDone, waitSeen

dispVars == <<dispatcherPC, availableWorkerID, currentThunk>>
slotVars == <<workerInUse, workerThunk, thunkToExecute, nextSpawnID, workersLock>>
semVars  == <<workerIsAvailable, newThunkFromScheduler>>
mainVars == <<mainPC, mainI, builds, destroying>>
aggVars  == <<built, seenURLs, intermediateIndex, index>>
lockVars == <<seenURLsLock, intermediateIndexLock>>
histVars == <<fetched, execCount, pushed, assigned, schedDone, waitSeen>>

vars == <<thunkQueue, pendingThunks, exitFlag, semVars, slotVars, dispVars,
          workerPC, workerI, mainVars, aggVars, lockVars, terminated,
          input, histVars>>

\* A thunk is named by the feed it belongs to and, for an article task, the
\* position of the article in that feed: <<i, 0>> is the task of feed i.
NoThunk == <<0, 0>>
FeedThunks(in) == {<<i, 0>> : i \in 1..Len(in.feeds)}
ArticleThunks(in) ==
  UNION {{<<i, j>> : j \in 1..Len(in.feeds[i].articles)} : i \in 1..Len(in.feeds)}
AllThunks(in) == FeedThunks(in) \cup ArticleThunks(in)
AllURLs(in) ==
  {in.feeds[i].url : i \in 1..Len(in.feeds)}
    \cup {in.feeds[t[1]].articles[t[2]].url : t \in ArticleThunks(in)}

ArticleOf(t) == input.feeds[t[1]].articles[t[2]]

\* The holder of a lock that no thread holds; a thread is <<pool, slot>>.
NoHolder == <<"none", 0>>

\* A pool whose workerIsAvailable starts with one permit more than it has
\* slots.
ThreadPoolExtraPermit(n) == [size |-> n, permits |-> n + 1]

\* A pool whose workerIsAvailable starts without permits.
ThreadPoolNoPermits(n) == [size |-> n, permits |-> 0]

\* A pool built one slot and one permit too large.
ThreadPoolOneMore(n) == [size |-> n + 1, permits |-> n + 1]

\* ThreadPool::ThreadPool: the length of workerVector and the permits of
\* workerIsAvailable.
ThreadPool(n) == [size |-> n, permits |-> n]

Workers(p) == DOMAIN workerPC[p]

\* The state after construction of the aggregator, for an input of S.
InitWith(S) ==
  /\ input \in S
  /\ thunkQueue = [p \in Pools |-> << >>]
  /\ nextSpawnID = [p \in Pools |-> 0]
  /\ pendingThunks = [p \in Pools |-> 0]
  /\ exitFlag = [p \in Pools |-> FALSE]
  /\ workerIsAvailable = [p \in Pools |-> ThreadPool(numThreads(p)).permits]
  /\ newThunkFromScheduler = [p \in Pools |-> 0]
  /\ workersLock = [p \in Pools |-> FALSE]
  /\ workerInUse = [p \in Pools |-> [w \in 0..(ThreadPool(numThreads(p)).size - 1) |-> FALSE]]
  /\ workerThunk = [p \in Pools |-> [w \in 0..(ThreadPool(numThreads(p)).size - 1) |-> NoThunk]]
  /\ thunkToExecute = [p \in Pools |-> [w \in 0..(ThreadPool(numThreads(p)).size - 1) |-> 0]]
  /\ dispatcherPC = [p \in Pools |-> "waitThunk"]
  /\ availableWorkerID = [p \in Pools |-> -1]
  /\ currentThunk = [p \in Pools |-> NoThunk]
  /\ workerPC = [p \in Pools |-> [w \in 0..(ThreadPool(numThreads(p)).size - 1) |-> "unspawned"]]
  /\ workerI = [w \in 0..(ThreadPool(numThreads("feed")).size - 1) |-> 0]
  /\ mainPC = "idle"
  /\ mainI = 0
  /\ builds = 0
  /\ destroying = "none"
  /\ built = FALSE
  /\ seenURLs = {}
  /\ intermediateIndex = << >>
  /\ index = << >>
  /\ seenURLsLock = NoHolder
  /\ intermediateIndexLock = NoHolder
  /\ terminated = FALSE
  /\ fetched = [u \in AllURLs(input) |-> 0]
  /\ execCount = [t \in AllThunks(input) |-> 0]
  /\ pushed = [p \in Pools |-> << >>]
  /\ assigned = [p \in Pools |-> << >>]
  /\ schedDone = {}
  /\ waitSeen = [main |-> {},
                 worker |-> [w \in 0..(ThreadPool(numThreads("feed")).size - 1) |-> {}]]

Init == InitWith(Inputs)

-----------------------------------------------------------------------------
(* ThreadPool::wait and the condition variable.                            *)

\* A sleeper that returns from wait() as soon as it is woken.
waitWokenReturns(checkPC, returnPC) == returnPC

\* A worker that never notifies.
notifyNever(pending) == FALSE

\* The predicate loop of pendingThunksCondVar.wait(lock, pred), entered with
\* pendingThunksLock held: return when pred holds, else release the lock and
\* sleep.
waitCheck(pending, returnPC, sleepPC) == IF pending = 0 THEN returnPC ELSE sleepPC

\* A sleeper that is woken up re-acquires the lock and evaluates pred again.
waitWoken(checkPC, returnPC) == checkPC

\* Where a feed task sleeping in articlePool.wait() goes when woken.
WokenWorkers(fpc) ==
  [w \in DOMAIN fpc |-> IF fpc[w] = "f_sleep" THEN waitWoken("f_wait", "dec") ELSE fpc[w]]

\* Where the owner of the aggregator goes when woken: it sleeps in
\* feedPool.wait() of launchFeedPool or in the wait() of ~ThreadPool.
WokenMain(p, pc) ==
  IF pc = "m_sleep" /\ p = "feed" THEN waitWoken("m_wait", "flush")
  ELSE IF pc = "d_sleep" /\ p = destroying THEN waitWoken("d_wait", "d_exit")
  ELSE pc

\* pendingThunksCondVar.notify_all() when the counter reached zero.
notifyIfZero(pending) == pending = 0

-----------------------------------------------------------------------------
(* ThreadPool::schedule, in its three steps, for a caller that is the      *)
(* owner of the aggregator (feed pool) or a feed task (article pool).      *)

\* A push at the front of the queue.
schedulePushFront(queue, thunk) == <<thunk>> \o queue

\* queueLock.lock(); thunkQueue.push(thunk); queueLock.unlock();
schedulePush(queue, thunk) == Append(queue, thunk)

\* pendingThunksLock.lock(); pendingThunks++; pendingThunksLock.unlock();
scheduleCount(pending) == pending + 1

-----------------------------------------------------------------------------
(* NewsAggregator::buildIndex and processAllFeeds, run by the owner.       *)

\* A buildIndex that never returns early.
buildIndexAlways(b) == FALSE

\* if (built) return;
buildIndexReturns(b) == b

\* buildIndex up to the call of processAllFeeds.
BuildIndex ==
  /\ ~terminated
  /\ mainPC = "idle"
  /\ builds < MaxBuilds
  /\ builds' = builds + 1
  /\ IF buildIndexReturns(built)
       THEN UNCHANGED <<built, mainPC>>
       ELSE built' = TRUE /\ mainPC' = "parse"
  /\ UNCHANGED <<thunkQueue, pendingThunks, exitFlag, semVars, slotVars, dispVars,
                 workerPC, workerI, mainI, destroying, seenURLs, intermediateIndex,
                 index, input, terminated, lockVars, histVars>>

\* A processAllFeeds that goes on after a feed list that failed to parse.
processAllFeedsIgnoresFailure(listOK, feeds) == feeds = << >>

\* The two early returns of processAllFeeds: the catch of feedList.parse()
\* and the empty feed list.
processAllFeedsReturns(listOK, feeds) == ~listOK \/ feeds = << >>

\* processAllFeeds: feedList.parse() and the test for an empty feed list.
ProcessAllFeeds ==
  /\ ~terminated
  /\ mainPC = "parse"
  /\ IF processAllFeedsReturns(input.listOK, input.feeds)
       THEN mainPC' = "idle" /\ UNCHANGED mainI
       ELSE mainPC' = "m_push" /\ mainI' = 1
  /\ UNCHANGED <<thunkQueue, pendingThunks, exitFlag, semVars, slotVars, dispVars,
                 workerPC, workerI, builds, destroying, aggVars, input, terminated, lockVars, histVars>>

\* launchFeedPool: feedPool.schedule(feed task mainI), first step.
MainSchedulePush ==
  /\ ~terminated
  /\ mainPC = "m_push"
  /\ thunkQueue' = [thunkQueue EXCEPT !["feed"] = schedulePush(@, <<mainI, 0>>)]
  /\ pushed' = [pushed EXCEPT !["feed"] = Append(@, <<mainI, 0>>)]
  /\ mainPC' = "m_count"
  /\ UNCHANGED <<pendingThunks, exitFlag, semVars, slotVars, dispVars, workerPC,
                 workerI, mainI, builds, destroying, aggVars, input, terminated, lockVars,
                 fetched, execCount, assigned, schedDone, waitSeen>>

MainScheduleCount ==
  /\ ~terminated
  /\ mainPC = "m_count"
  /\ pendingThunks' = [pendingThunks EXCEPT !["feed"] = scheduleCount(@)]
  /\ mainPC' = "m_signal"
  /\ UNCHANGED <<thunkQueue, exitFlag, semVars, slotVars, dispVars, workerPC,
                 workerI, mainI, builds, destroying, aggVars, input, terminated, lockVars, histVars>>

\* newThunkFromScheduler.signal(); then the next feed, or feedPool.wait().
MainScheduleSignal ==
  /\ ~terminated
  /\ mainPC = "m_signal"
  /\ newThunkFromScheduler' = [newThunkFromScheduler EXCEPT !["feed"] = @ + 1]
  /\ schedDone' = schedDone \cup {<<mainI, 0>>}
  /\ IF mainI < Len(input.feeds)
       THEN mainI' = mainI + 1 /\ mainPC' = "m_push" /\ UNCHANGED waitSeen
       ELSE /\ mainI' = 0
            /\ mainPC' = "m_wait"
            /\ waitSeen' = [waitSeen EXCEPT !.main = {t \in schedDone' : t[2] = 0}]
  /\ UNCHANGED <<thunkQueue, pendingThunks, exitFlag, workerIsAvailable, slotVars,
                 dispVars, workerPC, workerI, builds, destroying, aggVars, input, terminated, lockVars,
                 fetched, execCount, pushed, assigned>>

\* feedPool.wait() in launchFeedPool.
MainWait ==
  /\ ~terminated
  /\ mainPC = "m_wait"
  /\ mainPC' = waitCheck(pendingThunks["feed"], "flush", "m_sleep")
  /\ UNCHANGED <<thunkQueue, pendingThunks, exitFlag, semVars, slotVars, dispVars,
                 workerPC, workerI, mainI, builds, destroying, aggVars, input, terminated, lockVars, histVars>>

\* The keys of a map in iteration order, smallest first.
PairLess(a, b) == StrLess(a[1], b[1]) \/ (a[1] = b[1] /\ StrLess(a[2], b[2]))

RECURSIVE InOrder(_)
InOrder(keys) ==
  IF keys = {} THEN << >>
  ELSE LET k == CHOOSE x \in keys : \A y \in keys \ {x} : PairLess(x, y)
       IN <<k>> \o InOrder(keys \ {k})

\* processAllFeeds: index.add for every entry of intermediateIndex.
Flush ==
  /\ ~terminated
  /\ mainPC = "flush"
  /\ index' = index \o [n \in 1..Cardinality(DOMAIN intermediateIndex) |->
                         intermediateIndex[InOrder(DOMAIN intermediateIndex)[n]]]
  /\ mainPC' = "idle"
  /\ UNCHANGED <<thunkQueue, pendingThunks, exitFlag, semVars, slotVars, dispVars,
                 workerPC, workerI, mainI, builds, destroying, built, seenURLs,
                 intermediateIndex, input, terminated, lockVars, histVars>>

-----------------------------------------------------------------------------
(* ThreadPool::dispatcher of pool p.                                       *)

\* newThunkFromScheduler.wait();
DispatcherWaitThunk(p) ==
  /\ ~terminated
  /\ dispatcherPC[p] = "waitThunk"
  /\ newThunkFromScheduler[p] > 0
  /\ newThunkFromScheduler' = [newThunkFromScheduler EXCEPT ![p] = @ - 1]
  /\ dispatcherPC' = [dispatcherPC EXCEPT ![p] = "waitWorker"]
  /\ UNCHANGED <<thunkQueue, pendingThunks, exitFlag, workerIsAvailable, slotVars,
                 availableWorkerID, currentThunk, workerPC, workerI, mainVars,
                 aggVars, input, terminated, lockVars, histVars>>

\* workerIsAvailable.wait();
DispatcherWaitWorker(p) ==
  /\ ~terminated
  /\ dispatcherPC[p] = "waitWorker"
  /\ workerIsAvailable[p] > 0
  /\ workerIsAvailable' = [workerIsAvailable EXCEPT ![p] = @ - 1]
  /\ dispatcherPC' = [dispatcherPC EXCEPT ![p] = "check"]
  /\ UNCHANGED <<thunkQueue, pendingThunks, exitFlag, newThunkFromScheduler, slotVars,
                 availableWorkerID, currentThunk, workerPC, workerI, mainVars,
                 aggVars, input, terminated, lockVars, histVars>>

\* if (exitFlag) break;
DispatcherCheckExit(p) ==
  /\ ~terminated
  /\ dispatcherPC[p] = "check"
  /\ dispatcherPC' = [dispatcherPC EXCEPT ![p] = IF exitFlag[p] THEN "exited" ELSE "scan"]
  /\ UNCHANGED <<thunkQueue, pendingThunks, exitFlag, semVars, slotVars,
                 availableWorkerID, currentThunk, workerPC, workerI, mainVars,
                 aggVars, input, terminated, lockVars, histVars>>

RECURSIVE scanFromAnySlot(_, _, _, _)
\* The scan without the test of workerInUse: it selects the first slot.
scanFromAnySlot(candidateWorkerID, size, inUse, next) ==
  IF candidateWorkerID >= size THEN [id |-> -1, next |-> next]
  ELSE [id |-> candidateWorkerID,
        next |-> IF candidateWorkerID = next THEN next + 1 ELSE next]

\* The first slot from candidateWorkerID on that is not in use, -1 without one.
FirstFree(candidateWorkerID, size, inUse) ==
  LET free == {c \in candidateWorkerID..(size - 1) : ~inUse[c]}
  IN IF free = {} THEN -1 ELSE CHOOSE c \in free : \A d \in free : c <= d

\* A scan that spawns a worker at every dispatch.
scanFromSpawnEach(candidateWorkerID, size, inUse, next) ==
  [id |-> FirstFree(candidateWorkerID, size, inUse), next |-> next + 1]

\* A scan that spawns the worker at nextSpawnID, and selects it, as long as
\* a slot without a worker is left.
scanFromEager(candidateWorkerID, size, inUse, next) ==
  IF next < size THEN [id |-> next, next |-> next + 1]
  ELSE [id |-> FirstFree(candidateWorkerID, size, inUse), next |-> next]

RECURSIVE scanFrom(_, _, _, _)
\* The for loop over candidateWorkerID: the slot it selects (-1 when it runs
\* off the end of workerVector) and nextSpawnID after the loop.
scanFrom(candidateWorkerID, size, inUse, next) ==
  IF candidateWorkerID >= size THEN [id |-> -1, next |-> next]
  ELSE LET n == IF candidateWorkerID = next THEN next + 1 ELSE next
       IN IF ~inUse[candidateWorkerID]
            THEN [id |-> candidateWorkerID, next |-> n]
            ELSE scanFrom(candidateWorkerID + 1, size, inUse, n)

\* The scan under workersLock: spawns the worker at nextSpawnID when it gets
\* there, marks the selected slot in use; a scan that selects nothing leaves
\* workersLock locked.
DispatcherScan(p) ==
  /\ ~terminated
  /\ dispatcherPC[p] = "scan"
  /\ ~workersLock[p]
  /\ LET r == scanFrom(0, Cardinality(DOMAIN workerInUse[p]), workerInUse[p], nextSpawnID[p])
     IN /\ nextSpawnID' = [nextSpawnID EXCEPT ![p] = r.next]
        /\ workerPC' = [workerPC EXCEPT ![p] =
                          [w \in DOMAIN @ |-> IF w >= nextSpawnID[p] /\ w < r.next
                                                THEN "wait" ELSE @[w]]]
        /\ availableWorkerID' = [availableWorkerID EXCEPT ![p] = r.id]
        /\ IF r.id # -1
             THEN /\ workerInUse' = [workerInUse EXCEPT ![p][r.id] = TRUE]
                  /\ UNCHANGED workersLock
             ELSE /\ workersLock' = [workersLock EXCEPT ![p] = TRUE]
                  /\ UNCHANGED workerInUse
  /\ dispatcherPC' = [dispatcherPC EXCEPT ![p] = "pop"]
  /\ UNCHANGED <<thunkQueue, pendingThunks, exitFlag, semVars, workerThunk,
                 thunkToExecute, currentThunk, workerI, mainVars, aggVars, input, terminated, lockVars,
                 histVars>>

\* currentThunk = thunkQueue.front(); thunkQueue.pop(); under queueLock.
\* front() and pop() of an empty queue are undefined: any thunk may come out.
DispatcherPop(p) ==
  /\ ~terminated
  /\ dispatcherPC[p] = "pop"
  /\ IF thunkQueue[p] # << >>
       THEN /\ currentThunk' = [currentThunk EXCEPT ![p] = Head(thunkQueue[p])]
            /\ thunkQueue' = [thunkQueue EXCEPT ![p] = Tail(@)]
       ELSE /\ \E t \in AllThunks(input) \cup {NoThunk} :
                 currentThunk' = [currentThunk EXCEPT ![p] = t]
            /\ UNCHANGED thunkQueue
  /\ dispatcherPC' = [dispatcherPC EXCEPT ![p] = "assign"]
  /\ UNCHANGED <<pendingThunks, exitFlag, semVars, slotVars, availableWorkerID,
                 workerPC, workerI, mainVars, aggVars, input, terminated, lockVars, histVars>>

\* workerThunk = currentThunk; thunkToExecute.signal(); under workersLock,
\* which the dispatcher itself still holds after a scan that selected nothing.
DispatcherAssign(p) ==
  /\ ~terminated
  /\ dispatcherPC[p] = "assign"
  /\ ~workersLock[p]
  /\ workerThunk' = [workerThunk EXCEPT ![p][availableWorkerID[p]] = currentThunk[p]]
  /\ thunkToExecute' = [thunkToExecute EXCEPT ![p][availableWorkerID[p]] = @ + 1]
  /\ assigned' = [assigned EXCEPT ![p] = Append(@, currentThunk[p])]
  /\ dispatcherPC' = [dispatcherPC EXCEPT ![p] = "waitThunk"]
  /\ UNCHANGED <<thunkQueue, pendingThunks, exitFlag, semVars, workerInUse,
                 nextSpawnID, workersLock, availableWorkerID, currentThunk, workerPC,
                 workerI, mainVars, aggVars, input, terminated, lockVars,
                 fetched, execCount, pushed, schedDone, waitSeen>>

-----------------------------------------------------------------------------
(* ThreadPool::worker of pool p, slot w.                                   *)

\* workerVector[workerID].thunkToExecute.wait();
WorkerWait(p, w) ==
  /\ ~terminated
  /\ workerPC[p][w] = "wait"
  /\ thunkToExecute[p][w] > 0
  /\ thunkToExecute' = [thunkToExecute EXCEPT ![p][w] = @ - 1]
  /\ workerPC' = [workerPC EXCEPT ![p][w] = "check"]
  /\ UNCHANGED <<thunkQueue, pendingThunks, exitFlag, semVars, workerInUse,
                 workerThunk, nextSpawnID, workersLock, dispVars, workerI, mainVars,
                 aggVars, input, terminated, lockVars, histVars>>

\* if (exitFlag) break; else the call of workerThunk() begins.
WorkerCheckExit(p, w) ==
  /\ ~terminated
  /\ workerPC[p][w] = "check"
  /\ IF exitFlag[p]
       THEN /\ workerPC' = [workerPC EXCEPT ![p][w] = "exited"]
            /\ UNCHANGED execCount
       ELSE /\ workerPC' = [workerPC EXCEPT ![p][w] =
                              IF p = "feed" THEN "f_lock" ELSE "a_lock"]
            /\ execCount' = [execCount EXCEPT ![workerThunk[p][w]] = @ + 1]
  /\ UNCHANGED <<thunkQueue, pendingThunks, exitFlag, semVars, slotVars, dispVars,
                 workerI, mainVars, aggVars, input, terminated, lockVars,
                 fetched, pushed, assigned, schedDone, waitSeen>>

\* pendingThunks--; notify_all() if it is zero; under pendingThunksLock.
WorkerDone(p, w) ==
  /\ ~terminated
  /\ workerPC[p][w] = "dec"
  /\ pendingThunks' = [pendingThunks EXCEPT ![p] = @ - 1]
  /\ LET wake == notifyIfZero(pendingThunks'[p])
         fpc  == IF wake /\ p = "article" THEN WokenWorkers(workerPC["feed"])
                 ELSE workerPC["feed"]
     IN /\ workerPC' = [[workerPC EXCEPT !["feed"] = fpc] EXCEPT ![p][w] = "release"]
        /\ mainPC' = IF wake THEN WokenMain(p, mainPC) ELSE mainPC
  /\ waitSeen' = IF p = "feed" THEN [waitSeen EXCEPT !.worker[w] = {}] ELSE waitSeen
  /\ UNCHANGED <<thunkQueue, exitFlag, semVars, slotVars, dispVars, workerI, mainI,
                 builds, destroying, aggVars, input, terminated, lockVars, fetched, execCount, pushed,
                 assigned, schedDone>>

\* workerInUse = false; under workersLock.
WorkerRelease(p, w) ==
  /\ ~terminated
  /\ workerPC[p][w] = "release"
  /\ ~workersLock[p]
  /\ workerInUse' = [workerInUse EXCEPT ![p][w] = FALSE]
  /\ workerPC' = [workerPC EXCEPT ![p][w] = "signal"]
  /\ UNCHANGED <<thunkQueue, pendingThunks, exitFlag, semVars, workerThunk,
                 thunkToExecute, nextSpawnID, workersLock, dispVars, workerI,
                 mainVars, aggVars, input, terminated, lockVars, histVars>>

\* workerIsAvailable.signal(); and back to the top of the loop.
WorkerSignal(p, w) ==
  /\ ~terminated
  /\ workerPC[p][w] = "signal"
  /\ workerIsAvailable' = [workerIsAvailable EXCEPT ![p] = @ + 1]
  /\ workerPC' = [workerPC EXCEPT ![p][w] = "wait"]
  /\ UNCHANGED <<thunkQueue, pendingThunks, exitFlag, newThunkFromScheduler, slotVars,
                 dispVars, workerI, mainVars, aggVars, input, terminated, lockVars, histVars>>

-----------------------------------------------------------------------------
(* The feed task of launchFeedPool, run by slot w of the feed pool.        *)

\* A test without the insert.
claimURLNoInsert(seen, url) == [claimed |-> url \notin seen, seen |-> seen]

\* The test-and-insert on seenURLs under seenURLsLock.
claimURL(seen, url) == [claimed |-> url \notin seen, seen |-> seen \cup {url}]

\* An early return that leaves seenURLsLock locked.
unlockSeenOnlyClaimed(claimed, holder) == IF claimed THEN NoHolder ELSE holder

\* seenURLsLock.unlock() on the early return and after the insert.
unlockSeen(claimed, holder) == NoHolder

FeedOf(w) == input.feeds[workerThunk["feed"][w][1]]

\* seenURLsLock.lock();
FeedLockSeen(w) ==
  /\ ~terminated
  /\ workerPC["feed"][w] = "f_lock"
  /\ seenURLsLock = NoHolder
  /\ seenURLsLock' = <<"feed", w>>
  /\ workerPC' = [workerPC EXCEPT !["feed"][w] = "f_claim"]
  /\ UNCHANGED <<thunkQueue, pendingThunks, exitFlag, semVars, slotVars, dispVars,
                 workerI, mainVars, aggVars, input, terminated, intermediateIndexLock, histVars>>

\* The test of seenURLs, the insert and the unlock.
FeedClaim(w) ==
  /\ ~terminated
  /\ workerPC["feed"][w] = "f_claim"
  /\ LET r == claimURL(seenURLs, FeedOf(w).url)
     IN /\ seenURLs' = r.seen
        /\ seenURLsLock' = unlockSeen(r.claimed, seenURLsLock)
        /\ workerPC' = [workerPC EXCEPT !["feed"][w] = IF r.claimed THEN "f_parse" ELSE "dec"]
  /\ UNCHANGED <<thunkQueue, pendingThunks, exitFlag, semVars, slotVars, dispVars,
                 workerI, mainVars, built, intermediateIndex, index, input, terminated,
                 intermediateIndexLock, histVars>>

\* A feed task without the catch: the exception of a feed that fails to
\* parse leaves the thunk and ends the process.
FeedParseUncaught(w) ==
  /\ ~terminated
  /\ workerPC["feed"][w] = "f_parse"
  /\ fetched' = [fetched EXCEPT ![FeedOf(w).url] = @ + 1]
  /\ IF ~FeedOf(w).ok
       THEN /\ workerPC' = [workerPC EXCEPT !["feed"][w] = "faulted"]
            /\ terminated' = TRUE
            /\ UNCHANGED workerI
       ELSE /\ IF FeedOf(w).articles # << >>
                 THEN /\ workerPC' = [workerPC EXCEPT !["feed"][w] = "f_push"]
                      /\ workerI' = [workerI EXCEPT ![w] = 1]
                 ELSE /\ workerPC' = [workerPC EXCEPT !["feed"][w] = "dec"]
                      /\ UNCHANGED workerI
            /\ UNCHANGED terminated
  /\ UNCHANGED <<thunkQueue, pendingThunks, exitFlag, semVars, slotVars, dispVars,
                 mainVars, aggVars, input, lockVars, execCount, pushed, assigned,
                 schedDone, waitSeen>>

\* feed.parse(), the catch and the test for an empty article list.
FeedParse(w) ==
  /\ ~terminated
  /\ workerPC["feed"][w] = "f_parse"
  /\ fetched' = [fetched EXCEPT ![FeedOf(w).url] = @ + 1]
  /\ IF FeedOf(w).ok /\ FeedOf(w).articles # << >>
       THEN /\ workerPC' = [workerPC EXCEPT !["feed"][w] = "f_push"]
            /\ workerI' = [workerI EXCEPT ![w] = 1]
       ELSE /\ workerPC' = [workerPC EXCEPT !["feed"][w] = "dec"]
            /\ UNCHANGED workerI
  /\ UNCHANGED <<thunkQueue, pendingThunks, exitFlag, semVars, slotVars, dispVars,
                 mainVars, aggVars, input, terminated, lockVars, execCount, pushed, assigned, schedDone,
                 waitSeen>>

\* launchArticlePool: articlePool.schedule(article task workerI[w]), first step.
FeedSchedulePush(w) ==
  /\ ~terminated
  /\ workerPC["feed"][w] = "f_push"
  /\ LET t == <<workerThunk["feed"][w][1], workerI[w]>>
     IN /\ thunkQueue' = [thunkQueue EXCEPT !["article"] = schedulePush(@, t)]
        /\ pushed' = [pushed EXCEPT !["article"] = Append(@, t)]
  /\ workerPC' = [workerPC EXCEPT !["feed"][w] = "f_count"]
  /\ UNCHANGED <<pendingThunks, exitFlag, semVars, slotVars, dispVars, workerI,
                 mainVars, aggVars, input, terminated, lockVars, fetched, execCount, assigned, schedDone,
                 waitSeen>>

FeedScheduleCount(w) ==
  /\ ~terminated
  /\ workerPC["feed"][w] = "f_count"
  /\ pendingThunks' = [pendingThunks EXCEPT !["article"] = scheduleCount(@)]
  /\ workerPC' = [workerPC EXCEPT !["feed"][w] = "f_signal"]
  /\ UNCHANGED <<thunkQueue, exitFlag, semVars, slotVars, dispVars, workerI,
                 mainVars, aggVars, input, terminated, lockVars, histVars>>

\* launchArticlePool returning without articlePool.wait().
afterLastArticleNoWait == "dec"

\* What launchArticlePool does after the last schedule call: articlePool.wait().
afterLastArticle == "f_wait"

\* newThunkFromScheduler.signal(); then the next article, or articlePool.wait().
FeedScheduleSignal(w) ==
  /\ ~terminated
  /\ workerPC["feed"][w] = "f_signal"
  /\ newThunkFromScheduler' = [newThunkFromScheduler EXCEPT !["article"] = @ + 1]
  /\ schedDone' = schedDone \cup {<<workerThunk["feed"][w][1], workerI[w]>>}
  /\ IF workerI[w] < Len(FeedOf(w).articles)
       THEN /\ workerI' = [workerI EXCEPT ![w] = @ + 1]
            /\ workerPC' = [workerPC EXCEPT !["feed"][w] = "f_push"]
            /\ UNCHANGED waitSeen
       ELSE /\ workerI' = [workerI EXCEPT ![w] = 0]
            /\ workerPC' = [workerPC EXCEPT !["feed"][w] = afterLastArticle]
            /\ waitSeen' = [waitSeen EXCEPT !.worker[w] = {t \in schedDone' : t[2] # 0}]
  /\ UNCHANGED <<thunkQueue, pendingThunks, exitFlag, workerIsAvailable, slotVars,
                 dispVars, mainVars, aggVars, input, terminated, lockVars, fetched, execCount, pushed,
                 assigned>>

\* articlePool.wait() at the end of launchArticlePool; the feed task returns
\* when it does.
FeedWait(w) ==
  /\ ~terminated
  /\ workerPC["feed"][w] = "f_wait"
  /\ workerPC' = [workerPC EXCEPT !["feed"][w] =
                    waitCheck(pendingThunks["article"], "dec", "f_sleep")]
  /\ UNCHANGED <<thunkQueue, pendingThunks, exitFlag, semVars, slotVars, dispVars,
                 workerI, mainVars, aggVars, input, terminated, lockVars, histVars>>

-----------------------------------------------------------------------------
(* The article task of launchArticlePool, run by slot w of the article pool. *)

\* seenURLsLock.lock();
ArticleLockSeen(w) ==
  /\ ~terminated
  /\ workerPC["article"][w] = "a_lock"
  /\ seenURLsLock = NoHolder
  /\ seenURLsLock' = <<"article", w>>
  /\ workerPC' = [workerPC EXCEPT !["article"][w] = "a_claim"]
  /\ UNCHANGED <<thunkQueue, pendingThunks, exitFlag, semVars, slotVars, dispVars,
                 workerI, mainVars, aggVars, input, terminated, intermediateIndexLock, histVars>>

\* The test of seenURLs, the insert and the unlock.
ArticleClaim(w) ==
  /\ ~terminated
  /\ workerPC["article"][w] = "a_claim"
  /\ LET r == claimURL(seenURLs, ArticleOf(workerThunk["article"][w]).url)
     IN /\ seenURLs' = r.seen
        /\ seenURLsLock' = unlockSeen(r.claimed, seenURLsLock)
        /\ workerPC' = [workerPC EXCEPT !["article"][w] =
                          IF r.claimed THEN "a_parse" ELSE "dec"]
  /\ UNCHANGED <<thunkQueue, pendingThunks, exitFlag, semVars, slotVars, dispVars,
                 workerI, mainVars, built, intermediateIndex, index, input, terminated,
                 intermediateIndexLock, histVars>>

\* document.parse() and the catch of HTMLDocumentException; any other
\* exception leaves the thunk and, with it, ThreadPool::worker, the function
\* of a std::thread: std::terminate ends the process.
ArticleParse(w) ==
  /\ ~terminated
  /\ workerPC["article"][w] = "a_parse"
  /\ LET url == ArticleOf(workerThunk["article"][w]).url
     IN /\ fetched' = [fetched EXCEPT ![url] = @ + 1]
        /\ IF url \in input.docThrow
             THEN /\ workerPC' = [workerPC EXCEPT !["article"][w] = "faulted"]
                  /\ terminated' = TRUE
             ELSE /\ workerPC' = [workerPC EXCEPT !["article"][w] =
                                    IF url \in input.docFail THEN "dec"
                                    ELSE "a_lockidx"]
                  /\ UNCHANGED terminated
  /\ UNCHANGED <<thunkQueue, pendingThunks, exitFlag, semVars, slotVars, dispVars,
                 workerI, mainVars, aggVars, input, lockVars, execCount, pushed,
                 assigned, schedDone, waitSeen>>

\* A merge that keeps the URL of the article that arrives last.
mergeEntryLastURL(idx, currentArticle, sortedTokens) ==
  LET articleIden == <<currentArticle.title, getURLServer(currentArticle.url)>>
      entry ==
        IF articleIden \in DOMAIN idx
          THEN [article |-> currentArticle,
                tokens |-> set_intersection(idx[articleIden].tokens, sortedTokens)]
          ELSE [article |-> currentArticle, tokens |-> sortedTokens]
  IN [k \in DOMAIN idx \cup {articleIden} |-> IF k = articleIden THEN entry ELSE idx[k]]

\* The update of intermediateIndex under intermediateIndexLock.
mergeEntry(idx, currentArticle, sortedTokens) ==
  LET articleURL  == currentArticle.url
      articleIden == <<currentArticle.title, getURLServer(articleURL)>>
      entry ==
        IF articleIden \in DOMAIN idx
          THEN LET existingURL == idx[articleIden].article.url
               IN [article |-> [currentArticle EXCEPT !.url =
                                  IF StrLess(existingURL, articleURL)
                                    THEN existingURL ELSE articleURL],
                   tokens |-> set_intersection(idx[articleIden].tokens, sortedTokens)]
          ELSE [article |-> currentArticle, tokens |-> sortedTokens]
  IN [k \in DOMAIN idx \cup {articleIden} |-> IF k = articleIden THEN entry ELSE idx[k]]

\* getTokens(), sort and intermediateIndexLock.lock();
ArticleLockIndex(w) ==
  /\ ~terminated
  /\ workerPC["article"][w] = "a_lockidx"
  /\ intermediateIndexLock = NoHolder
  /\ intermediateIndexLock' = <<"article", w>>
  /\ workerPC' = [workerPC EXCEPT !["article"][w] = "a_merge"]
  /\ UNCHANGED <<thunkQueue, pendingThunks, exitFlag, semVars, slotVars, dispVars,
                 workerI, mainVars, aggVars, input, terminated, seenURLsLock, histVars>>

\* The merge into intermediateIndex and intermediateIndexLock.unlock().
ArticleMerge(w) ==
  /\ ~terminated
  /\ workerPC["article"][w] = "a_merge"
  /\ LET a == ArticleOf(workerThunk["article"][w])
     IN intermediateIndex' = mergeEntry(intermediateIndex, a, sort(DocTokens(a.url)))
  /\ intermediateIndexLock' = NoHolder
  /\ workerPC' = [workerPC EXCEPT !["article"][w] = "dec"]
  /\ UNCHANGED <<thunkQueue, pendingThunks, exitFlag, semVars, slotVars, dispVars,
                 workerI, mainVars, built, seenURLs, index, input, terminated, seenURLsLock,
                 histVars>>

-----------------------------------------------------------------------------
(* Wakeups of the condition variable without a notification.               *)

SpuriousWakeupWorker(w) ==
  /\ ~terminated
  /\ workerPC["feed"][w] = "f_sleep"
  /\ workerPC' = [workerPC EXCEPT !["feed"][w] = waitWoken("f_wait", "dec")]
  /\ UNCHANGED <<thunkQueue, pendingThunks, exitFlag, semVars, slotVars, dispVars,
                 workerI, mainVars, aggVars, input, terminated, lockVars, histVars>>

SpuriousWakeupMain ==
  /\ ~terminated
  /\ mainPC \in {"m_sleep", "d_sleep"}
  /\ mainPC' = IF mainPC = "m_sleep" THEN waitWoken("m_wait", "flush")
               ELSE waitWoken("d_wait", "d_exit")
  /\ UNCHANGED <<thunkQueue, pendingThunks, exitFlag, semVars, slotVars, dispVars,
                 workerPC, workerI, mainI, builds, destroying, aggVars, input, terminated, lockVars, histVars>>

-----------------------------------------------------------------------------
(* The end of the aggregator: its members are destroyed in reverse order   *)
(* of declaration, articlePool first, then feedPool (ThreadPool::~ThreadPool). *)

DeleteAggregator ==
  /\ ~terminated
  /\ mainPC = "idle"
  /\ destroying' = "article"
  /\ mainPC' = "d_wait"
  /\ UNCHANGED <<thunkQueue, pendingThunks, exitFlag, semVars, slotVars, dispVars,
                 workerPC, workerI, mainI, builds, aggVars, input, terminated, lockVars, histVars>>

\* wait();
DtorWait ==
  /\ ~terminated
  /\ mainPC = "d_wait"
  /\ mainPC' = waitCheck(pendingThunks[destroying], "d_exit", "d_sleep")
  /\ UNCHANGED <<thunkQueue, pendingThunks, exitFlag, semVars, slotVars, dispVars,
                 workerPC, workerI, mainI, builds, destroying, aggVars, input, terminated, lockVars, histVars>>

\* exitFlag = true;
DtorSetExit ==
  /\ ~terminated
  /\ mainPC = "d_exit"
  /\ exitFlag' = [exitFlag EXCEPT ![destroying] = TRUE]
  /\ mainI' = 0
  /\ mainPC' = "d_loop"
  /\ UNCHANGED <<thunkQueue, pendingThunks, semVars, slotVars, dispVars, workerPC,
                 workerI, builds, destroying, aggVars, input, terminated, lockVars, histVars>>

\* A loop over every slot of workerVector.
joinBoundAllSlots(next, size) == size

\* for (size_t workerID = 0; workerID < nextSpawnID; workerID++)
joinBound(next, size) == next

\* for (workerID < nextSpawnID): thunkToExecute.signal();
DtorSignalWorker ==
  /\ ~terminated
  /\ mainPC = "d_loop"
  /\ IF mainI < joinBound(nextSpawnID[destroying], numThreads(destroying))
       THEN /\ thunkToExecute' = [thunkToExecute EXCEPT ![destroying][mainI] = @ + 1]
            /\ mainPC' = "d_joinw"
       ELSE /\ mainPC' = "d_sigd1"
            /\ UNCHANGED thunkToExecute
  /\ UNCHANGED <<thunkQueue, pendingThunks, exitFlag, semVars, workerInUse,
                 workerThunk, nextSpawnID, workersLock, dispVars, workerPC, workerI,
                 mainI, builds, destroying, aggVars, input, terminated, lockVars, histVars>>

\* workerThread.join();
DtorJoinWorker ==
  /\ ~terminated
  /\ mainPC = "d_joinw"
  /\ workerPC[destroying][mainI] = "exited"
  /\ mainI' = mainI + 1
  /\ mainPC' = "d_loop"
  /\ UNCHANGED <<thunkQueue, pendingThunks, exitFlag, semVars, slotVars, dispVars,
                 workerPC, workerI, builds, destroying, aggVars, input, terminated, lockVars, histVars>>

\* newThunkFromScheduler.signal();
DtorSignalThunk ==
  /\ ~terminated
  /\ mainPC = "d_sigd1"
  /\ newThunkFromScheduler' = [newThunkFromScheduler EXCEPT ![destroying] = @ + 1]
  /\ mainPC' = "d_sigd2"
  /\ UNCHANGED <<thunkQueue, pendingThunks, exitFlag, workerIsAvailable, slotVars,
                 dispVars, workerPC, workerI, mainI, builds, destroying, aggVars,
                 input, terminated, lockVars, histVars>>

\* workerIsAvailable.signal();
DtorSignalAvailable ==
  /\ ~terminated
  /\ mainPC = "d_sigd2"
  /\ workerIsAvailable' = [workerIsAvailable EXCEPT ![destroying] = @ + 1]
  /\ mainPC' = "d_joind"
  /\ UNCHANGED <<thunkQueue, pendingThunks, exitFlag, newThunkFromScheduler, slotVars,
                 dispVars, workerPC, workerI, mainI, builds, destroying, aggVars,
                 input, terminated, lockVars, histVars>>

\* dispatcherThread.join(); then the next member, or the end.
DtorJoinDispatcher ==
  /\ ~terminated
  /\ mainPC = "d_joind"
  /\ dispatcherPC[destroying] = "exited"
  /\ IF destroying = "article"
       THEN destroying' = "feed" /\ mainPC' = "d_wait"
       ELSE destroying' = "none" /\ mainPC' = "deleted"
  /\ mainI' = 0
  /\ UNCHANGED <<thunkQueue, pendingThunks, exitFlag, semVars, slotVars, dispVars,
                 workerPC, workerI, builds, aggVars, input, terminated, lockVars, histVars>>

-----------------------------------------------------------------------------
Main ==
  \/ BuildIndex \/ ProcessAllFeeds
  \/ MainSchedulePush \/ MainScheduleCount \/ MainScheduleSignal \/ MainWait
  \/ Flush
  \/ DeleteAggregator \/ DtorWait \/ DtorSetExit \/ DtorSignalWorker
  \/ DtorJoinWorker \/ DtorSignalThunk \/ DtorSignalAvailable \/ DtorJoinDispatcher

Dispatcher(p) ==
  \/ DispatcherWaitThunk(p) \/ DispatcherWaitWorker(p) \/ DispatcherCheckExit(p)
  \/ DispatcherScan(p) \/ DispatcherPop(p) \/ DispatcherAssign(p)

Worker(p, w) ==
  \/ WorkerWait(p, w) \/ WorkerCheckExit(p, w)
  \/ WorkerDone(p, w) \/ WorkerRelease(p, w) \/ WorkerSignal(p, w)

FeedTask(w) ==
  \/ FeedLockSeen(w) \/ FeedClaim(w) \/ FeedParse(w) \/ FeedSchedulePush(w) \/ FeedScheduleCount(w)
  \/ FeedScheduleSignal(w) \/ FeedWait(w)

ArticleTask(w) ==
  \/ ArticleLockSeen(w) \/ ArticleClaim(w) \/ ArticleParse(w)
  \/ ArticleLockIndex(w) \/ ArticleMerge(w)

Next ==
  \/ Main
  \/ \E p \in Pools : Dispatcher(p)
  \/ \E p \in Pools : \E w \in Workers(p) : Worker(p, w)
  \/ \E w \in Workers("feed") : FeedTask(w)
  \/ \E w \in Workers("article") : ArticleTask(w)
  \/ \E w \in Workers("feed") : SpuriousWakeupWorker(w)
  \/ SpuriousWakeupMain

Spec == Init /\ [][Next]_vars

\* The steps of the thread of slot w of pool p: the worker loop and the
\* thunk it runs.
WorkerThread(p, w) ==
  \/ Worker(p, w)
  \/ p = "feed" /\ FeedTask(w)
  \/ p = "article" /\ ArticleTask(w)

\* Every thread that can take a step eventually takes one; a wakeup without
\* a notification is never owed.
Fairness ==
  /\ WF_vars(Main)
  /\ \A p \in Pools : WF_vars(Dispatcher(p))
  /\ \A p \in Pools : \A w \in 0..(numThreads(p) - 1) : WF_vars(WorkerThread(p, w))

FairSpec == InitWith(FairInputs) /\ [][Next]_vars /\ Fairness

\* The runs with more tasks than workers in both pools, under the same
\* fairness.
ManySpec == InitWith(ManyInputs) /\ [][Next]_vars /\ Fairness

\* The runs with a document whose parse ends with an exception that nothing
\* catches, under the same fairness.
FaultSpec == InitWith(FaultInputs) /\ [][Next]_vars /\ Fairness

-----------------------------------------------------------------------------
(* Properties.                                                             *)

BodyPCs == {"f_lock", "f_claim", "f_parse", "f_push", "f_count", "f_signal",
            "f_wait", "f_sleep", "a_lock", "a_claim", "a_parse", "a_lockidx",
            "a_merge"}

\* Slot w of pool p is inside the call of its thunk.
Executing(p, w) == workerPC[p][w] \in BodyPCs

ExecutingSlots(p) == {w \in Workers(p) : Executing(p, w)}

\* Thunk t has been executed in full.
Completed(t) ==
  /\ execCount[t] > 0
  /\ \A p \in Pools : \A w \in Workers(p) : ~(Executing(p, w) /\ workerThunk[p][w] = t)

Range(s) == {s[n] : n \in 1..Len(s)}

\* C1: in every reachable state, at most numThreads thunks of a pool are
\* executing at the same time.
C1_AtMostNumThreadsExecuting ==
  \A p \in Pools : Cardinality(ExecutingSlots(p)) <= numThreads(p)

\* A pool with every slot executing and a further thunk waiting in its queue.
C1_Witness ==
  \E p \in Pools :
    /\ Cardinality(ExecutingSlots(p)) = numThreads(p)
    /\ thunkQueue[p] # << >>

\* C2: when a call of wait() has returned, every thunk whose schedule() call
\* had returned before that wait() call began has been executed in full.
C2_WaitCoversScheduled ==
  /\ mainPC = "flush" => \A t \in waitSeen.main : Completed(t)
  /\ \A w \in Workers("feed") :
       workerPC["feed"][w] = "dec" => \A t \in waitSeen.worker[w] : Completed(t)

\* C3: every thunk in thunkQueue is counted in pendingThunks.
C3_QueuedThunksCounted ==
  \A p \in Pools : Len(thunkQueue[p]) <= pendingThunks[p]

\* C4: when processAllFeeds starts to iterate intermediateIndex, every feed
\* task and every article task of the run has completed, and no feed task is
\* left that could submit another article task.
C4_FlushAfterAllTasks ==
  mainPC = "flush" =>
    /\ \A t \in FeedThunks(input) : Completed(t)
    /\ \A t \in Range(pushed["article"]) : Completed(t)
    /\ \A p \in Pools : thunkQueue[p] = << >> /\ ExecutingSlots(p) = {}
    /\ \A p \in Pools : dispatcherPC[p] # "assign"

\* The flush begins after three article tasks were submitted, the first
\* and the third by different feed tasks.
C4_Witness ==
  /\ mainPC = "flush"
  /\ Len(pushed["article"]) >= 3
  /\ pushed["article"][1][1] # pushed["article"][3][1]

\* Where thunk t of pool p is between its push and its execution.
InQueue(p, t) == t \in Range(thunkQueue[p])
AtDispatcher(p, t) == dispatcherPC[p] = "assign" /\ currentThunk[p] = t
AtSlot(p, t) ==
  \E w \in Workers(p) :
    /\ workerThunk[p][w] = t
    /\ execCount[t] = 0
    /\ thunkToExecute[p][w] > 0 \/ workerPC[p][w] = "check"

\* C5: every thunk passed to schedule() is executed exactly once: it is never
\* run twice, between its push and its execution it is in the queue, with the
\* dispatcher or at one slot, after the pool is destroyed it has been
\* executed, and no slot is handed a thunk while it executes another.
C5_ExactlyOnce ==
  /\ \A t \in AllThunks(input) : execCount[t] <= 1
  /\ \A p \in Pools : \A t \in Range(pushed[p]) :
       execCount[t] = 0 => InQueue(p, t) \/ AtDispatcher(p, t) \/ AtSlot(p, t)
  /\ mainPC = "deleted" =>
       \A p \in Pools : \A t \in Range(pushed[p]) : execCount[t] = 1 /\ Completed(t)
  /\ \A p \in Pools : \A w \in Workers(p) :
       /\ thunkToExecute[p][w] <= 1
       /\ thunkToExecute[p][w] = 1 => ~Executing(p, w)

\* The pools are destroyed after a run in which one slot executed two thunks.
C5_Witness ==
  /\ mainPC = "deleted"
  /\ Len(pushed["article"]) >= 3
  /\ nextSpawnID["article"] <= 2

\* A thread is inside a call of wait(): the feedPool.wait() of
\* launchFeedPool, the wait() of the destructor, or the articlePool.wait()
\* of a feed task.
InWait ==
  \/ mainPC \in {"m_wait", "m_sleep", "d_wait", "d_sleep"}
  \/ \E w \in 0..(NumFeedWorkers - 1) : workerPC["feed"][w] \in {"f_wait", "f_sleep"}

\* C6: under fair scheduling no call of wait() lasts for ever, however
\* schedule calls and completions race with it and however often wait() is
\* called: at any time there is a later time at which no thread is inside
\* wait().
C6_WaitEventuallyReturns == []<>(~InWait)

\* A feed task sleeps in articlePool.wait() while another feed task is in
\* the middle of a schedule call on the article pool.
C6_Witness ==
  \E w, v \in Workers("feed") :
    /\ workerPC["feed"][w] = "f_sleep"
    /\ workerPC["feed"][v] \in {"f_count", "f_signal"}

\* C7: a call of wait() returns only in a step in which pendingThunks, read
\* under pendingThunksLock, is zero.
C7_WaitReturnsAtZero ==
  [][/\ (mainPC \in {"m_wait", "m_sleep"} /\ mainPC' = "flush")
          => pendingThunks["feed"] = 0
     /\ (mainPC \in {"d_wait", "d_sleep"} /\ mainPC' = "d_exit")
          => pendingThunks[destroying] = 0
     /\ \A w \in Workers("feed") :
          (workerPC["feed"][w] \in {"f_wait", "f_sleep"} /\ workerPC'["feed"][w] = "dec")
            => pendingThunks["article"] = 0]_vars

\* A feed task has returned from articlePool.wait() and another feed task
\* sleeps in it.
C7_Witness ==
  \E w, v \in Workers("feed") :
    /\ workerPC["feed"][w] = "dec" /\ waitSeen.worker[w] # {}
    /\ workerPC["feed"][v] = "f_sleep"

\* The URL a thunk claims.
ThunkURL(t) == IF t[2] = 0 THEN input.feeds[t[1]].url ELSE ArticleOf(t).url

\* C8: every URL is fetched at most once in a run, and a URL that was
\* fetched stays claimed, whether or not its fetch succeeded.
C8_FetchAtMostOnce ==
  \A u \in AllURLs(input) : fetched[u] <= 1 /\ (fetched[u] = 1 => u \in seenURLs)

\* Two tasks for the same URL have both run and the URL was fetched once.
C8_Witness ==
  \E t1, t2 \in AllThunks(input) :
    /\ t1 # t2 /\ ThunkURL(t1) = ThunkURL(t2)
    /\ Completed(t1) /\ Completed(t2)
    /\ fetched[ThunkURL(t1)] = 1

\* How often token x occurs in the token list s.
Count(x, s) == Cardinality({n \in 1..Len(s) : s[n] = x})

Min(S) == CHOOSE x \in S : \A y \in S : x <= y

\* The sorted list in which every token x occurs as often as in the list of
\* S it is rarest in.
RECURSIVE CommonTokens(_, _)
CommonTokens(S, tokens) ==
  IF tokens = {} THEN << >>
  ELSE LET x == Min(tokens)
       IN [n \in 1..Min({Count(x, s) : s \in S}) |-> x] \o CommonTokens(S, tokens \ {x})

\* The articles of the feeds that parse, and their merge keys.
Articles == {ArticleOf(t) : t \in {t \in ArticleThunks(input) : input.feeds[t[1]].ok}}
KeyOf(a) == <<a.title, getURLServer(a.url)>>
FeedURLs == {input.feeds[i].url : i \in 1..Len(input.feeds)}

\* C9: after a run in which no article is at the URL of a feed, for the
\* articles that share a (title, server) key and whose documents all parse,
\* the entry of intermediateIndex for that key holds the multiset
\* intersection of their sorted token lists and the smallest of their URLs.
C9_MergedEntry ==
  mainPC = "flush" =>
    \A key \in {KeyOf(a) : a \in Articles} :
      LET urls == {a.url : a \in {b \in Articles : KeyOf(b) = key}}
          docs == {DocTokens(u) : u \in urls}
      IN ({a.url : a \in Articles} \cap FeedURLs = {} /\ urls \cap input.docFail = {}) =>
           /\ key \in DOMAIN intermediateIndex
           /\ intermediateIndex[key].tokens = CommonTokens(docs, UNION {Range(d) : d \in docs})
           /\ intermediateIndex[key].article.title = key[1]
           /\ intermediateIndex[key].article.url \in urls
           /\ \A u \in urls : ~StrLess(u, intermediateIndex[key].article.url)

\* Three articles with one key were merged, the one with the smallest URL
\* not last, and tokens were dropped by the intersection.
C9_Witness ==
  /\ mainPC = "flush"
  /\ \E key \in DOMAIN intermediateIndex :
       /\ intermediateIndex[key].article.url = <<2, 1>>
       /\ intermediateIndex[key].tokens = <<2, 3>>
  /\ Len(assigned["article"]) = 3
  /\ ArticleOf(assigned["article"][3]).url # <<2, 1>>

\* C10: the dispatcher hands thunks to workers in the order they were
\* pushed onto thunkQueue.
C10_AssignedInPushOrder ==
  \A p \in Pools :
    /\ Len(assigned[p]) <= Len(pushed[p])
    /\ \A n \in 1..Len(assigned[p]) : assigned[p][n] = pushed[p][n]

\* Two feed tasks pushed their articles in the reverse of the order in which
\* the feed tasks were scheduled, and both articles were assigned.
C10_Witness ==
  /\ Len(assigned["article"]) >= 2
  /\ assigned["article"][1][1] > assigned["article"][2][1]

\* The slots of pool p that have a worker thread.
Spawned(p) == {w \in Workers(p) : workerPC[p][w] # "unspawned"}

\* C11: a pool built with numThreads = M never has nextSpawnID above M, and
\* never more than M worker threads.
C11_SpawnedAtMostNumThreads ==
  \A p \in Pools :
    /\ nextSpawnID[p] <= numThreads(p)
    /\ Cardinality(Spawned(p)) <= numThreads(p)

\* A pool that has spawned all its workers and has dispatched more thunks
\* than it has slots.
C11_Witness ==
  \E p \in Pools :
    /\ nextSpawnID[p] = numThreads(p)
    /\ Len(assigned[p]) > numThreads(p)

\* The destructor of pool p has set exitFlag: every thunk ever scheduled on p
\* has been executed in full and nothing is queued or counted.
AllRanAtExit(p) ==
  exitFlag[p] =>
    /\ \A t \in Range(pushed[p]) : Completed(t)
    /\ thunkQueue[p] = << >>
    /\ pendingThunks[p] = 0

\* The slots of pool p without a worker thread have never been signalled.
OnlySpawnedSignalled(p) ==
  \A w \in Workers(p) : w >= nextSpawnID[p] => thunkToExecute[p][w] = 0

\* Every thread of every pool has left its loop and has been joined; the
\* slots from nextSpawnID on never had a thread.
AllJoined ==
  /\ mainPC = "deleted"
  /\ \A p \in Pools :
       /\ dispatcherPC[p] = "exited"
       /\ \A w \in Workers(p) :
            workerPC[p][w] = IF w < nextSpawnID[p] THEN "exited" ELSE "unspawned"

\* C12: with no schedule() call racing with it, the destructor terminates:
\* it sets exitFlag only after every scheduled thunk has run, it signals only
\* slots below nextSpawnID, and it ends with every spawned worker and the
\* dispatcher exited and joined.
C12_DestructorTerminates ==
  /\ [](\A p \in Pools : AllRanAtExit(p) /\ OnlySpawnedSignalled(p))
  /\ (destroying # "none") ~> AllJoined

\* The aggregator has been destroyed after a run in which its pools ran
\* thunks and one of them spawned fewer workers than it has slots.
C12_Witness ==
  /\ AllJoined
  /\ \A p \in Pools : nextSpawnID[p] > 0
  /\ \E p \in Pools : nextSpawnID[p] < numThreads(p)

\* The body of a thunk has ended with an exception that left the thunk.
Faulted == \E p \in Pools : \E w \in Workers(p) : workerPC[p][w] = "faulted"

\* Nothing is counted as pending and no slot is marked in use: wait() returns.
Drained ==
  \A p \in Pools :
    /\ pendingThunks[p] = 0
    /\ \A w \in Workers(p) : ~workerInUse[p][w]

\* C13: after the body of a thunk has ended with an unhandled fault, the
\* pool still decrements pendingThunks for it and releases its slot, so that
\* the counters drain and wait() can return.
C13_FaultKeepsBookkeeping == Faulted ~> Drained

\* C14: a call of buildIndex after a first run that succeeded does nothing:
\* it schedules nothing on either pool, leaves seenURLs and intermediateIndex
\* alone and leaves the index as it is.
C14_SecondBuildIndexIsNoOp ==
  [][(mainPC = "idle" /\ built /\ builds' = builds + 1) =>
       /\ mainPC' = "idle"
       /\ UNCHANGED <<thunkQueue, pendingThunks, newThunkFromScheduler, pushed,
                      schedDone, seenURLs, intermediateIndex, index, built>>]_vars

\* buildIndex has been called a second time on an aggregator whose first run
\* filled the index.
C14_Witness ==
  /\ builds = 2
  /\ built
  /\ index # << >>
  /\ mainPC = "idle"

\* The feed list parses and one of its feeds fails to parse or is empty.
HasBadFeed ==
  /\ input.listOK
  /\ \E i \in 1..Len(input.feeds) :
       ~input.feeds[i].ok \/ input.feeds[i].articles = << >>

\* The index has an entry for the (title, server) key of article a.
Indexed(a) ==
  \E n \in 1..Len(index) :
    <<index[n].article.title, getURLServer(index[n].article.url)>> = KeyOf(a)

\* No article is at the URL of a feed: every article of a feed that parses
\* has been fetched once, and is in the index when its document parses.
OtherFeedsIndexed ==
  {a.url : a \in Articles} \cap FeedURLs = {} =>
    \A a \in Articles :
      /\ fetched[a.url] = 1
      /\ a.url \notin input.docFail => Indexed(a)

\* C15: a feed that fails to parse or has no article affects only its own
\* task: the run completes, and every article of every feed that does parse
\* has been fetched and has its entry in the index.
C15_BadFeedAffectsOnlyItself ==
  (HasBadFeed /\ mainPC = "parse") ~> (mainPC = "idle" /\ OtherFeedsIndexed)

\* A run with a feed that failed to parse has returned with both articles of
\* the other feed in the index.
C15_Witness ==
  /\ mainPC = "idle"
  /\ \E i \in 1..Len(input.feeds) : ~input.feeds[i].ok /\ fetched[input.feeds[i].url] = 1
  /\ Len(index) = 2

\* The feed list fails to parse or holds no feed.
BadFeedList == ~input.listOK \/ input.feeds = << >>

\* C16: when the feed list fails to parse or is empty, processAllFeeds
\* returns without scheduling a task on either pool and the index stays
\* empty.
C16_BadFeedListSchedulesNothing ==
  BadFeedList =>
    /\ \A p \in Pools :
         pushed[p] = << >> /\ thunkQueue[p] = << >> /\ pendingThunks[p] = 0
    /\ schedDone = {}
    /\ index = << >> /\ intermediateIndex = << >> /\ seenURLs = {}
    /\ mainPC \in {"idle", "parse", "d_wait", "d_sleep", "d_exit", "d_loop",
                   "d_joinw", "d_sigd1", "d_sigd2", "d_joind", "deleted"}

\* processAllFeeds has returned after a feed list that failed to parse.
C16_Witness ==
  /\ ~input.listOK
  /\ built
  /\ mainPC = "idle"

\* The threads that run feed and article tasks.
TaskThreads == UNION {{<<p, w>> : w \in 0..(numThreads(p) - 1)} : p \in Pools}

\* C17: no thread holds seenURLsLock and intermediateIndexLock at the same
\* time, and a thread holds either lock only inside the section it guards:
\* it has released it on every path out of the section, the early return of
\* a URL already seen included.
C17_LocksNeverNested ==
  \A th \in TaskThreads :
    /\ ~(seenURLsLock = th /\ intermediateIndexLock = th)
    /\ seenURLsLock = th => workerPC[th[1]][th[2]] \in {"f_claim", "a_claim"}
    /\ intermediateIndexLock = th => workerPC[th[1]][th[2]] = "a_merge"

\* Both locks are held, by two threads: one article task is merging while
\* another has locked seenURLsLock for a URL that is already in seenURLs, so
\* that it is on its way to the early return.
C17_Witness ==
  /\ intermediateIndexLock # NoHolder
  /\ \E w \in Workers("article") :
       /\ seenURLsLock = <<"article", w>>
       /\ ThunkURL(workerThunk["article"][w]) \in seenURLs

\* C18: a crawl run always terminates: the feed workers blocked inside
\* articlePool.wait() and the article pool never wait for each other, and
\* feedPool.wait() returns, also with more feeds than the feed pool has
\* workers and more article tasks than the article pool has workers.
C18_RunTerminates == (mainPC = "parse") ~> (mainPC = "idle")

\* Every feed worker is inside articlePool.wait() holding its slot while a
\* feed task is still queued and the article pool has work.
C18_Witness ==
  /\ \A w \in Workers("feed") : workerPC["feed"][w] \in {"f_wait", "f_sleep"}
  /\ thunkQueue["feed"] # << >>
  /\ pendingThunks["article"] > 0
  /\ Len(input.feeds) > NumFeedWorkers

\* C19: whenever the dispatcher has passed both semaphore waits with
\* exitFlag false, its scan finds a slot that is not in use, so that
\* availableWorkerID is never left at -1 and workersLock never left locked,
\* and thunkQueue is not empty when it pops.
C19_DispatcherFindsSlotAndThunk ==
  \A p \in Pools :
    /\ ~workersLock[p]
    /\ dispatcherPC[p] = "scan" => \E w \in Workers(p) : ~workerInUse[p][w]
    /\ dispatcherPC[p] = "pop" => availableWorkerID[p] # -1 /\ thunkQueue[p] # << >>
    /\ dispatcherPC[p] = "assign" => availableWorkerID[p] # -1

\* A dispatcher is about to pop a thunk for the last slot that was free,
\* a slot used before, in a pool that has already dispatched as many thunks
\* as it has slots.
C19_Witness ==
  \E p \in Pools :
    /\ dispatcherPC[p] = "pop"
    /\ \A w \in Workers(p) : workerInUse[p][w]
    /\ Len(assigned[p]) >= numThreads(p)

\* No slot from nextSpawnID on has a thread, is in use, holds a thunk or has
\* been signalled, and every slot below it has a thread.
SpawnedArePrefix(p) ==
  \A w \in Workers(p) :
    IF w < nextSpawnID[p] THEN workerPC[p][w] # "unspawned"
    ELSE /\ workerPC[p][w] = "unspawned"
         /\ ~workerInUse[p][w]
         /\ workerThunk[p][w] = NoThunk
         /\ thunkToExecute[p][w] = 0

\* A step that changes nextSpawnID of pool p creates one worker, at a
\* dispatch at which every slot that already had a worker is in use, and
\* selects the new worker for the thunk of that dispatch.
SpawnsLazily(p) ==
  nextSpawnID'[p] # nextSpawnID[p] =>
    /\ nextSpawnID'[p] = nextSpawnID[p] + 1
    /\ \A w \in Workers(p) : w < nextSpawnID[p] => workerInUse[p][w]
    /\ availableWorkerID'[p] = nextSpawnID[p]
    /\ workerInUse'[p][nextSpawnID[p]]

\* C20: workers are spawned lazily: a worker is created only at a dispatch
\* at which every worker spawned so far is in use, it receives the thunk of
\* that dispatch, and the spawned workers are always exactly the slots
\* 0..nextSpawnID-1.
C20_LazySpawning ==
  /\ [](\A p \in Pools : SpawnedArePrefix(p))
  /\ [][\A p \in Pools : SpawnsLazily(p)]_vars

\* A pool has reused a worker: it has dispatched more thunks than it has
\* spawned workers, and still has a slot without a worker.
C20_Witness ==
  \E p \in Pools :
    /\ nextSpawnID[p] > 0
    /\ nextSpawnID[p] < numThreads(p)
    /\ Len(assigned[p]) > nextSpawnID[p]

====
